---- MODULE Spec2Model ----
(***************************************************************************)
(* TigerAgentV3 (src/tiger_agent.py): the decision-and-memory pipeline.    *)
(* One process run is  __init__ (load_memory)  followed by  run_cycle ;    *)
(* the memory file tiger_memory.json is the only state that survives a     *)
(* run.  Confidences are in hundredths (0.75 is 75).  Timestamps are left  *)
(* out of the records: no operation reads them.                            *)
(***************************************************************************)
EXTENDS Integers, Sequences, FiniteSets, TLC

VARIABLES
    file,       \* tiger_memory.json on disk
    memory,     \* self.memory
    pc,         \* where the process is
    idx,        \* position in trends[:2] (analysis loop) or in products_to_create
    analysis,   \* the local `analysis` of run_cycle's first loop
    toCreate,   \* the local `products_to_create`
    content,    \* the local `content` of the creation loop
    wpos,       \* chunks of the current json.dump already written
    ret,        \* where save_memory returns to
    io,         \* the oracle exchange of the last ai_* call
    genCalls,   \* the calls of ai_create_product_content in this run: the decision
                \* passed, and whether content came back
    base,       \* lengths of decisions / products_created when run_cycle began
    summary     \* the numbers printed by the cycle summary

vars == <<file, memory, pc, idx, analysis, toCreate, content, wpos, ret, io,
          genCalls, base, summary>>

-----------------------------------------------------------------------------
(* Bounds *)

MaxDecisions == 4   \* a run starts a cycle only while the record can take it
MaxReplyLen == 3    \* brace-carrying parts of a reply, where all replies are drawn
FlushEvery == 4     \* chunks the file buffer holds before it writes them out

-----------------------------------------------------------------------------
(* Values: JSON scalars as they sit in Python dicts *)

Absent == [t |-> "absent", s |-> "", n |-> 0]
Str(x) == [t |-> "str", s |-> x, n |-> 0]
Num(x) == [t |-> "num", s |-> "", n |-> x]
Bool(b) == [t |-> "bool", s |-> "", n |-> IF b THEN 1 ELSE 0]

Min(a, b) == IF a <= b THEN a ELSE b

Range(s) == {s[i] : i \in 1..Len(s)}

\* x in lst, for a Python list
InList(x, lst) == \E i \in 1..Len(lst) : lst[i] = x

-----------------------------------------------------------------------------
(* search_trends: the static list, by keyword *)

K1 == "AI prompt templates for ChatGPT"
K2 == "Notion dashboard templates for productivity"
K3 == "Resume templates ATS-friendly 2025"
K4 == "Budget planner guide for beginners"
K5 == "Social media content calendar templates"

search_trends == <<K1, K2, K3, K4, K5>>

FanOutCap == 2
ConfidenceGate == 75

\* a slice that takes one candidate more than the cap
TopTrends_OneMore == SubSeq(search_trends, 1, Min(FanOutCap + 1, Len(search_trends)))

\* trends[:2]
TopTrends == SubSeq(search_trends, 1, Min(FanOutCap, Len(search_trends)))

-----------------------------------------------------------------------------
(* self.memory, and the records log_decision / run_cycle build.  A Python   *)
(* dict is a record over its possible keys; a key the dict lacks is Absent. *)

MemKeys == <<"decisions", "products_created", "successful_niches",
             "failed_niches", "total_revenue", "learnings">>

DecKeys == <<"trend", "decision", "confidence", "reasoning", "ai_powered",
             "estimated_price">>

ProdKeys == <<"trend", "filename", "filepath", "title", "estimated_price",
              "status">>

\* the dict load_memory returns when there is no file
DefaultMemory ==
    [keys |-> Range(MemKeys),
     decisions |-> <<>>, products_created |-> <<>>,
     successful_niches |-> <<>>, failed_niches |-> <<>>,
     total_revenue |-> 0, learnings |-> <<>>]

-----------------------------------------------------------------------------
(* json.dump / json.load.  The document is the sequence of the top-level    *)
(* members the encoder writes, between an opening and a closing brace.      *)

\* an encoder that leaves out the members whose value is falsy
DumpDict_DropsFalsy(r, keys) ==
    SelectSeq([i \in 1..Len(keys) |-> [k |-> keys[i], v |-> r[keys[i]]]],
              LAMBDA p : p.v.t # "absent" /\ p.v # Num(0))

\* a dict as a JSON object: its members in insertion order
DumpDict(r, keys) ==
    SelectSeq([i \in 1..Len(keys) |-> [k |-> keys[i], v |-> r[keys[i]]]],
              LAMBDA p : p.v.t # "absent")

\* a JSON object as a dict: the last member of a name wins
LoadDict(pairs, keys) ==
    [k \in Range(keys) |->
        IF \E i \in 1..Len(pairs) : pairs[i].k = k
        THEN LET last == CHOOSE i \in 1..Len(pairs) :
                            /\ pairs[i].k = k
                            /\ \A j \in (i+1)..Len(pairs) : pairs[j].k # k
             IN pairs[last].v
        ELSE Absent]

\* a list of str as a JSON array of strings, and back
DumpStrs(lst) == [i \in 1..Len(lst) |-> Str(lst[i])]

LoadStrs(arr) == [i \in 1..Len(arr) |-> arr[i].s]

DumpMember(m, key) ==
    CASE key = "decisions" ->
            [k |-> key, t |-> "objs", num |-> 0, strs |-> <<>>,
             objs |-> [i \in 1..Len(m.decisions) |-> DumpDict(m.decisions[i], DecKeys)]]
      [] key = "products_created" ->
            [k |-> key, t |-> "objs", num |-> 0, strs |-> <<>>,
             objs |-> [i \in 1..Len(m.products_created) |->
                          DumpDict(m.products_created[i], ProdKeys)]]
      [] key = "successful_niches" ->
            [k |-> key, t |-> "strs", num |-> 0, strs |-> DumpStrs(m.successful_niches), objs |-> <<>>]
      [] key = "failed_niches" ->
            [k |-> key, t |-> "strs", num |-> 0, strs |-> DumpStrs(m.failed_niches), objs |-> <<>>]
      [] key = "total_revenue" ->
            [k |-> key, t |-> "num", num |-> m.total_revenue, strs |-> <<>>, objs |-> <<>>]
      [] key = "learnings" ->
            [k |-> key, t |-> "strs", num |-> 0, strs |-> DumpStrs(m.learnings), objs |-> <<>>]

\* json.dump(self.memory): the members of the keys the dict holds
DumpMembers(m) ==
    LET present == SelectSeq(MemKeys, LAMBDA k : k \in m.keys)
    IN [i \in 1..Len(present) |-> DumpMember(m, present[i])]

HasMember(members, key) == \E i \in 1..Len(members) : members[i].k = key

Member(members, key) ==
    members[CHOOSE i \in 1..Len(members) :
                /\ members[i].k = key
                /\ \A j \in (i+1)..Len(members) : members[j].k # key]

\* json.load of a complete document
LoadMembers(members) ==
    LET objs(key, keys) ==
            IF HasMember(members, key)
            THEN [i \in 1..Len(Member(members, key).objs) |->
                     LoadDict(Member(members, key).objs[i], keys)]
            ELSE <<>>
        strs(key) == IF HasMember(members, key)
                     THEN LoadStrs(Member(members, key).strs) ELSE <<>>
    IN [keys |-> {members[i].k : i \in 1..Len(members)},
        decisions |-> objs("decisions", DecKeys),
        products_created |-> objs("products_created", ProdKeys),
        successful_niches |-> strs("successful_niches"),
        failed_niches |-> strs("failed_niches"),
        total_revenue |-> IF HasMember(members, "total_revenue")
                          THEN Member(members, "total_revenue").num ELSE 0,
        learnings |-> strs("learnings")]

NoFile == [exists |-> FALSE, open |-> FALSE, members |-> <<>>, closed |-> FALSE]

\* open(self.memory_file, 'w'): the file exists and is empty
Truncated == [exists |-> TRUE, open |-> FALSE, members |-> <<>>, closed |-> FALSE]

\* the file after the first n chunks of json.dump(m) reached it
Written(m, n) ==
    LET all == DumpMembers(m)
    IN [exists |-> TRUE,
        open |-> n >= 1,
        members |-> SubSeq(all, 1, Min(n - 1, Len(all))),
        closed |-> n >= Len(all) + 2]

NumChunks(m) == Len(DumpMembers(m)) + 2

StoredFile(m) == Written(m, NumChunks(m))

\* json.load raises JSONDecodeError unless the text is one complete value
Parses(f) == f.open /\ f.closed

\* load_memory: "ok" is FALSE when json.load raised
load_memory(f) ==
    IF ~f.exists THEN [ok |-> TRUE, mem |-> DefaultMemory]
    ELSE IF Parses(f) THEN [ok |-> TRUE, mem |-> LoadMembers(f.members)]
    ELSE [ok |-> FALSE, mem |-> DefaultMemory]


-----------------------------------------------------------------------------
(* The oracle's reply (response.content[0].text) as the sequence of its     *)
(* brace-carrying parts, in order: a stray "{" or "}", or a well-formed      *)
(* JSON object.  The free text around them is left out: nothing reads it     *)
(* (the empty sequence is a reply of text alone).  A reply whose transport   *)
(* failed has ok = FALSE.                                                    *)

Payload(d, c, r, p, t) ==
    [decision |-> d, confidence |-> c, reasoning |-> r,
     estimated_price_point |-> p, title |-> t]

NoPayload == Payload(Absent, Absent, Absent, Absent, Absent)

Open == [t |-> "open", p |-> NoPayload]
Close == [t |-> "close", p |-> NoPayload]
Obj(p) == [t |-> "obj", p |-> p]

HasOpen(seg) == seg.t \in {"open", "obj"}
HasClose(seg) == seg.t \in {"close", "obj"}

\* re.search(r'\{.*\}', text, re.DOTALL): from the first "{" to the last "}"
\* after it; <<>> when there is no match
JsonMatch(segs) ==
    LET opens == {i \in 1..Len(segs) : HasOpen(segs[i])}
    IN IF opens = {} THEN <<>>
       ELSE LET first == CHOOSE i \in opens : \A j \in opens : i <= j
                closes == {j \in first..Len(segs) :
                              /\ HasClose(segs[j])
                              /\ (j = first => segs[first].t = "obj")}
            IN IF closes = {} THEN <<>>
               ELSE LET last == CHOOSE j \in closes : \A k \in closes : k <= j
                    IN SubSeq(segs, first, last)

\* json.loads(region) succeeds exactly when the region is one well-formed object
JsonLoads(region) ==
    IF Len(region) = 1 /\ region[1].t = "obj"
    THEN [ok |-> TRUE, p |-> region[1].p]
    ELSE [ok |-> FALSE, p |-> NoPayload]

-----------------------------------------------------------------------------
(* ai_analyze_opportunity *)

Analysis(d, c, r, p, t, kw) ==
    [decision |-> d, confidence |-> c, reasoning |-> r,
     estimated_price_point |-> p, title |-> t, trend |-> Str(kw)]

NoAnalysis == Analysis(Absent, Absent, Absent, Absent, Absent, "")

\* line 107
KnownFailure(kw) == Analysis(Str("skip"), Num(0), Absent, Absent, Absent, kw)

\* lines 111-112
KnownSuccess(kw) ==
    Analysis(Str("create"), Num(95), Str("Proven success in our history"),
             Absent, Absent, kw)

\* line 168: the except branch
EvalFallback(kw) == Analysis(Str("monitor"), Num(50), Absent, Absent, Absent, kw)

\* line 157: no brace-delimited region in the reply
NoMatchFallback(kw) ==
    Analysis(Str("monitor"), Num(50), Str("ai_response[:200]"), Absent, Absent, kw)

\* the two prints of lines 161-162 raise unless decision is a str, confidence
\* is there, and reasoning (when there) can be sliced
\* an analysis adopted without the reads of lines 161-162
PrintsAnalysis_Unchecked(a) == TRUE

PrintsAnalysis(a) ==
    /\ a.decision.t = "str"
    /\ a.confidence.t # "absent"
    /\ a.reasoning.t \in {"absent", "str"}

\* lines 121-168, for a keyword in neither list
OracleAnalysis(kw, reply) ==
    IF ~reply.ok THEN EvalFallback(kw)
    ELSE LET region == JsonMatch(reply.segs)
         IN IF region = <<>> THEN NoMatchFallback(kw)
            ELSE LET parsed == JsonLoads(region)
                     \* line 159: analysis["trend"] = keyword
                     a == Analysis(parsed.p.decision, parsed.p.confidence,
                                   parsed.p.reasoning, parsed.p.estimated_price_point,
                                   parsed.p.title, kw)
                 IN IF parsed.ok /\ PrintsAnalysis(a) THEN a ELSE EvalFallback(kw)

\* the two memory checks in the other order
ai_analyze_opportunity_SuccessFirst(mem, kw, reply) ==
    IF InList(kw, mem.successful_niches)
    THEN [raised |-> FALSE, result |-> KnownSuccess(kw), calls |-> 0]
    ELSE IF InList(kw, mem.failed_niches)
    THEN [raised |-> FALSE, result |-> KnownFailure(kw), calls |-> 0]
    ELSE [raised |-> FALSE, result |-> OracleAnalysis(kw, reply), calls |-> 1]

\* lines 102-168: the dict returned and the number of oracle requests sent;
\* "raised" when a key of self.memory read outside the try is missing
ai_analyze_opportunity(mem, kw, reply) ==
    IF "failed_niches" \notin mem.keys
    THEN [raised |-> TRUE, result |-> NoAnalysis, calls |-> 0]
    ELSE IF InList(kw, mem.failed_niches)
    THEN [raised |-> FALSE, result |-> KnownFailure(kw), calls |-> 0]
    ELSE IF "successful_niches" \notin mem.keys
    THEN [raised |-> TRUE, result |-> NoAnalysis, calls |-> 0]
    ELSE IF InList(kw, mem.successful_niches)
    THEN [raised |-> FALSE, result |-> KnownSuccess(kw), calls |-> 0]
    ELSE IF "products_created" \notin mem.keys
    THEN [raised |-> TRUE, result |-> NoAnalysis, calls |-> 0]
    ELSE [raised |-> FALSE, result |-> OracleAnalysis(kw, reply), calls |-> 1]

-----------------------------------------------------------------------------
(* ai_create_product_content *)

NoContent == [ok |-> FALSE, title |-> Absent]

\* the except branch handing back an empty draft instead of None
ai_create_product_content_EmptyDraft(reply) ==
    IF ~reply.ok THEN [ok |-> TRUE, title |-> Str("")]
    ELSE LET region == JsonMatch(reply.segs)
         IN IF region = <<>> THEN NoContent
            ELSE LET parsed == JsonLoads(region)
                 IN IF parsed.ok /\ parsed.p.title.t # "absent"
                    THEN [ok |-> TRUE, title |-> parsed.p.title]
                    ELSE NoContent

\* lines 177-229: "ok" is FALSE for the None the method returns
ai_create_product_content(reply) ==
    IF ~reply.ok THEN NoContent
    ELSE LET region == JsonMatch(reply.segs)
         IN IF region = <<>> THEN NoContent
            ELSE LET parsed == JsonLoads(region)
                 IN IF parsed.ok /\ parsed.p.title.t # "absent"
                    THEN [ok |-> TRUE, title |-> parsed.p.title]
                    ELSE NoContent

-----------------------------------------------------------------------------
(* log_decision, the gate of run_cycle, and the product record *)

\* d.get(key, default)
Get(v, default) == IF v.t = "absent" THEN default ELSE v

\* lines 318-328
decision_record(a) ==
    [trend |-> a.trend,
     decision |-> a.decision,
     confidence |-> Get(a.confidence, Num(50)),
     reasoning |-> Get(a.reasoning, Str("No reasoning provided")),
     ai_powered |-> Bool(TRUE),
     estimated_price |-> a.estimated_price_point]

\* line 363; a str confidence makes >= raise TypeError
GateRaises(a) ==
    /\ a.decision = Str("create")
    /\ Get(a.confidence, Num(0)).t # "num"

\* the gate without its threshold
PassesGate_AnyConfidence(a) ==
    /\ a.decision = Str("create")
    /\ Get(a.confidence, Num(0)).t = "num"

PassesGate(a) ==
    /\ a.decision = Str("create")
    /\ Get(a.confidence, Num(0)).t = "num"
    /\ Get(a.confidence, Num(0)).n >= ConfidenceGate

\* line 378: trend[:50] with ' ' and '/' replaced by '_', plus ".pdf"
Filename(kw) ==
    CASE kw = K1 -> "AI_prompt_templates_for_ChatGPT.pdf"
      [] kw = K2 -> "Notion_dashboard_templates_for_productivity.pdf"
      [] kw = K3 -> "Resume_templates_ATS-friendly_2025.pdf"
      [] kw = K4 -> "Budget_planner_guide_for_beginners.pdf"
      [] kw = K5 -> "Social_media_content_calendar_templates.pdf"

\* line 238: os.path.join(self.products_dir, output_filename)
Filepath(kw) ==
    CASE kw = K1 -> "tiger_products/AI_prompt_templates_for_ChatGPT.pdf"
      [] kw = K2 -> "tiger_products/Notion_dashboard_templates_for_productivity.pdf"
      [] kw = K3 -> "tiger_products/Resume_templates_ATS-friendly_2025.pdf"
      [] kw = K4 -> "tiger_products/Budget_planner_guide_for_beginners.pdf"
      [] kw = K5 -> "tiger_products/Social_media_content_calendar_templates.pdf"

\* lines 382-390
product_info(d, c) ==
    [trend |-> d.trend,
     filename |-> Str(Filename(d.trend.s)),
     filepath |-> Str(Filepath(d.trend.s)),
     title |-> c.title,
     estimated_price |-> Get(d.estimated_price_point, Str("$9.99")),
     status |-> Str("created")]


-----------------------------------------------------------------------------
(* Inputs: what the oracle may reply, and what the memory file may hold     *)
(* when a run starts.                                                       *)

\* a reply that serves both requests: create at the gate, a price, a title
Good == Payload(Str("create"), Num(ConfidenceGate), Str("strategic"), Str("$7.00"),
                Str("Title"))

\* a create at the gate; a create just below it; a decision outside the
\* three, with a confidence above 1; a confidence that is no number; objects
\* without a decision or a confidence; a reasoning or a decision that is no
\* string; the empty object
ObjPayloads ==
    { Good,
      Payload(Str("create"), Num(ConfidenceGate - 1), Str("strategic"), Absent, Absent),
      Payload(Str("create"), Str("high"), Absent, Absent, Absent),
      Payload(Absent, Num(90), Str("strategic"), Absent, Str("Title")),
      Payload(Str("create"), Absent, Absent, Absent, Absent),
      Payload(Str("create"), Num(90), Num(1), Absent, Absent),
      Payload(Num(1), Num(90), Absent, Absent, Absent),
      Payload(Str("maybe"), Num(150), Str("strategic"), Absent, Absent),
      NoPayload }

TransportError == [ok |-> FALSE, segs |-> <<>>]

\* the shapes a reply takes: text alone, braces around something that is no
\* JSON, one object alone, one object amid stray braces, two objects
ReplyShapes ==
    { <<>>,
      <<Open, Close>>,
      <<Close, Obj(Good), Open>>,
      <<Obj(Good), Obj(Good)>> }
    \cup {<<Obj(p)>> : p \in ObjPayloads}

Replies == {TransportError} \cup {[ok |-> TRUE, segs |-> q] : q \in ReplyShapes}

NoIO == [kind |-> "none", reply |-> TransportError, calls |-> 0]

LabelLists == {<<>>, <<K1>>, <<K2>>, <<K1, K2>>}

\* records a curator may have left in the file: labels only
LabelledRecords ==
    {[DefaultMemory EXCEPT !.successful_niches = s, !.failed_niches = f] :
        s \in LabelLists, f \in LabelLists}

\* a curated record that also carries revenue
EarningRecord ==
    [DefaultMemory EXCEPT !.successful_niches = <<K1, K2>>, !.total_revenue = 27]

\* no file, a damaged file, or a curated record
InitialFiles ==
    {NoFile, Truncated, Written(DefaultMemory, 3), StoredFile(EarningRecord)}
    \cup {StoredFile(m) : m \in LabelledRecords}

-----------------------------------------------------------------------------
(* The process *)

\* how a process has ended: json.load raised in __init__, an exception left
\* run_cycle (create_pdf_product's apart), run_cycle returned, or a kill
Exited == {"load_failed", "raised", "render_failed", "done", "crashed"}

NoSummary == [decisions |-> 0, created |-> 0, catalog |-> 0]

Locals ==
    /\ idx = 0
    /\ analysis = NoAnalysis
    /\ toCreate = <<>>
    /\ content = NoContent
    /\ wpos = 0
    /\ ret = ""
    /\ io = NoIO
    /\ genCalls = <<>>
    /\ base = [dec |-> 0, prod |-> 0]
    /\ summary = NoSummary

Init ==
    /\ file \in InitialFiles
    /\ memory = DefaultMemory
    /\ pc = "start"
    /\ Locals

\* the process ends with an exception: its locals are gone
Raise(where) ==
    /\ pc' = where
    /\ idx' = 0
    /\ analysis' = NoAnalysis
    /\ toCreate' = <<>>
    /\ content' = NoContent
    /\ wpos' = 0
    /\ ret' = ""
    /\ io' = NoIO
    /\ UNCHANGED <<file, memory, genCalls, base, summary>>

\* main() starts a process (the first, or the next scheduled run after the
\* last one ended) and __init__ loads the memory, lines 25-37.  The API key
\* is taken to be set: without it line 36 ends every run before any cycle.
Construct ==
    /\ pc \in {"start"} \cup Exited
    /\ LET r == load_memory(file)
       IN IF ~r.ok
          THEN /\ pc' = "load_failed"
               /\ memory' = DefaultMemory
          ELSE /\ pc' = "ready"
               /\ memory' = r.mem
    /\ idx' = 0
    /\ analysis' = NoAnalysis
    /\ toCreate' = <<>>
    /\ content' = NoContent
    /\ wpos' = 0
    /\ ret' = ""
    /\ io' = NoIO
    /\ genCalls' = <<>>
    /\ base' = [dec |-> 0, prod |-> 0]
    /\ summary' = NoSummary
    /\ UNCHANGED file

\* run_cycle, lines 342-357
BeginCycle ==
    /\ pc = "ready"
    /\ Len(memory.decisions) + Len(TopTrends) <= MaxDecisions
    /\ idx' = 1
    /\ toCreate' = <<>>
    /\ base' = [dec |-> Len(memory.decisions), prod |-> Len(memory.products_created)]
    /\ pc' = IF Len(search_trends) = 0 THEN "done" ELSE "analyze"
    /\ UNCHANGED <<file, memory, analysis, content, wpos, ret, io, genCalls, summary>>

\* line 360
Analyze ==
    /\ pc = "analyze"
    /\ idx <= Len(TopTrends)
    /\ \E reply \in Replies :
         LET r == ai_analyze_opportunity(memory, TopTrends[idx], reply)
         IN IF r.raised THEN Raise("raised")
            ELSE /\ analysis' = r.result
                 /\ io' = [kind |-> "eval",
                           reply |-> IF r.calls = 0 THEN TransportError ELSE reply,
                           calls |-> r.calls]
                 /\ pc' = "log_decision"
                 /\ UNCHANGED <<file, memory, idx, toCreate, content, wpos, ret,
                                genCalls, base, summary>>

\* log_decision called on the oracle's path only
LogDecision_OracleOnly ==
    /\ pc = "log_decision"
    /\ memory' = IF io.calls = 0 THEN memory
                 ELSE [memory EXCEPT
                         !.decisions = Append(@, decision_record(analysis))]
    /\ pc' = "save_open"
    /\ ret' = "gate"
    /\ io' = NoIO
    /\ UNCHANGED <<file, idx, analysis, toCreate, content, wpos, genCalls,
                   base, summary>>

\* lines 361, 318-330
LogDecision ==
    /\ pc = "log_decision"
    /\ IF "decisions" \notin memory.keys THEN Raise("raised")
       ELSE /\ memory' = [memory EXCEPT
                            !.decisions = Append(@, decision_record(analysis))]
            /\ pc' = "save_open"
            /\ ret' = "gate"
            /\ io' = NoIO
            /\ UNCHANGED <<file, idx, analysis, toCreate, content, wpos, genCalls,
                           base, summary>>

\* line 55: open(self.memory_file, 'w')
SaveOpen ==
    /\ pc = "save_open"
    /\ file' = Truncated
    /\ wpos' = 0
    /\ pc' = "save_write"
    /\ UNCHANGED <<memory, idx, analysis, toCreate, content, ret, io, genCalls,
                   base, summary>>

\* line 56: json.dump writes the document chunk after chunk into the file's
\* buffer; the buffer reaches the file when it is full, and when the with
\* block closes the file after the last chunk
SaveWrite ==
    /\ pc = "save_write"
    /\ LET n == Min(wpos + FlushEvery, NumChunks(memory))
       IN /\ file' = Written(memory, n)
          /\ IF n = NumChunks(memory)
             THEN /\ pc' = ret
                  /\ wpos' = 0
                  /\ ret' = ""
             ELSE /\ wpos' = n
                  /\ UNCHANGED <<pc, ret>>
    /\ UNCHANGED <<memory, idx, analysis, toCreate, content, io, genCalls, base,
                   summary>>

\* a gate that puts the newest Judgment at the head of products_to_create
Gate_NewestFirst ==
    /\ pc = "gate"
    /\ IF GateRaises(analysis) THEN Raise("raised")
       ELSE /\ toCreate' = IF PassesGate(analysis)
                           THEN <<analysis>> \o toCreate ELSE toCreate
            /\ analysis' = NoAnalysis
            /\ IF idx + 1 > Len(TopTrends)
               THEN idx' = 1 /\ pc' = "create"
               ELSE idx' = idx + 1 /\ pc' = "analyze"
            /\ UNCHANGED <<file, memory, content, wpos, ret, io, genCalls, base,
                           summary>>

\* lines 363-364, and the loop of line 359
Gate ==
    /\ pc = "gate"
    /\ IF GateRaises(analysis) THEN Raise("raised")
       ELSE /\ toCreate' = IF PassesGate(analysis)
                           THEN Append(toCreate, analysis) ELSE toCreate
            /\ analysis' = NoAnalysis
            /\ IF idx + 1 > Len(TopTrends)
               THEN idx' = 1 /\ pc' = "create"
               ELSE idx' = idx + 1 /\ pc' = "analyze"
            /\ UNCHANGED <<file, memory, content, wpos, ret, io, genCalls, base,
                           summary>>

\* lines 370-374
Create ==
    /\ pc = "create"
    /\ idx <= Len(toCreate)
    /\ \E reply \in Replies :
         /\ content' = ai_create_product_content(reply)
         /\ io' = [kind |-> "gen", reply |-> reply, calls |-> 1]
         /\ genCalls' = Append(genCalls,
                               [d |-> toCreate[idx],
                                ok |-> ai_create_product_content(reply).ok])
    /\ pc' = "created"
    /\ UNCHANGED <<file, memory, idx, analysis, toCreate, wpos, ret, base, summary>>

\* lines 376, 394-395
CheckContent ==
    /\ pc = "created"
    /\ io' = NoIO
    /\ IF content.ok
       THEN pc' = "render" /\ UNCHANGED idx
       ELSE pc' = "create" /\ idx' = idx + 1
    /\ UNCHANGED <<file, memory, analysis, toCreate, content, wpos, ret, genCalls,
                   base, summary>>

\* the step of the creation loop with log_product_creation ahead of
\* create_pdf_product
Render_RecordsFirst ==
    /\ pc = "render"
    /\ \E rendered \in BOOLEAN :
         IF ~rendered
         THEN /\ memory' = [memory EXCEPT
                              !.products_created =
                                  Append(@, product_info(toCreate[idx], content))]
              /\ pc' = "render_failed"
              /\ idx' = 0
              /\ analysis' = NoAnalysis
              /\ toCreate' = <<>>
              /\ content' = NoContent
              /\ wpos' = 0
              /\ ret' = ""
              /\ io' = NoIO
              /\ UNCHANGED <<file, genCalls, base, summary>>
         ELSE /\ pc' = "log_product"
              /\ UNCHANGED <<file, memory, idx, analysis, toCreate, content, wpos,
                             ret, io, genCalls, base, summary>>

\* lines 378-379: create_pdf_product returns the path or raises
Render ==
    /\ pc = "render"
    /\ \E rendered \in BOOLEAN :
         IF ~rendered THEN Raise("render_failed")
         ELSE /\ pc' = "log_product"
              /\ UNCHANGED <<file, memory, idx, analysis, toCreate, content, wpos,
                             ret, io, genCalls, base, summary>>

\* a log_product_creation that also labels the trend a success
LogProduct_LabelsSuccess ==
    /\ pc = "log_product"
    /\ memory' = [memory EXCEPT
                     !.products_created =
                         Append(@, product_info(toCreate[idx], content)),
                     !.successful_niches = Append(@, toCreate[idx].trend.s)]
    /\ idx' = idx + 1
    /\ content' = NoContent
    /\ pc' = "save_open"
    /\ ret' = "create"
    /\ UNCHANGED <<file, analysis, toCreate, wpos, io, genCalls, base, summary>>

\* lines 382-391, 335
LogProduct ==
    /\ pc = "log_product"
    /\ IF "products_created" \notin memory.keys THEN Raise("raised")
       ELSE /\ memory' = [memory EXCEPT
                            !.products_created =
                                Append(@, product_info(toCreate[idx], content))]
            /\ idx' = idx + 1
            /\ content' = NoContent
            /\ pc' = "save_open"
            /\ ret' = "create"
            /\ UNCHANGED <<file, analysis, toCreate, wpos, io, genCalls, base, summary>>

\* lines 397-411
Summary ==
    /\ pc = "create"
    /\ idx > Len(toCreate)
    /\ summary' = [decisions |-> Len(memory.decisions),
                   created |-> Len(toCreate),
                   catalog |-> Len(memory.products_created)]
    /\ pc' = "done"
    /\ UNCHANGED <<file, memory, idx, analysis, toCreate, content, wpos, ret, io,
                   genCalls, base>>

\* the process is killed: only the file is left
Crash ==
    /\ pc \notin Exited \cup {"start"}
    /\ memory' = DefaultMemory
    /\ summary' = NoSummary
    /\ genCalls' = <<>>
    /\ base' = [dec |-> 0, prod |-> 0]
    /\ pc' = "crashed"
    /\ idx' = 0
    /\ analysis' = NoAnalysis
    /\ toCreate' = <<>>
    /\ content' = NoContent
    /\ wpos' = 0
    /\ ret' = ""
    /\ io' = NoIO
    /\ UNCHANGED file

Next ==
    \/ Construct
    \/ BeginCycle
    \/ Analyze
    \/ LogDecision
    \/ SaveOpen
    \/ SaveWrite
    \/ Gate
    \/ Create
    \/ CheckContent
    \/ Render
    \/ LogProduct
    \/ Summary
    \/ Crash

Spec == Init /\ [][Next]_vars

\* a record written before a field was added to the dict of lines 44-51: it
\* holds the other fields only
OlderRecord(missing) == [DefaultMemory EXCEPT !.keys = Range(MemKeys) \ missing]

\* the files of older records: one field missing, or two
LegacyFiles ==
    {StoredFile(OlderRecord({k})) : k \in Range(MemKeys)}
    \cup {StoredFile(OlderRecord({"failed_niches", "products_created"}))}

\* the runs that start on a well-formed file of an older record
InitLegacy ==
    /\ file \in LegacyFiles
    /\ memory = DefaultMemory
    /\ pc = "start"
    /\ Locals

SpecLegacy == InitLegacy /\ [][Next]_vars

-----------------------------------------------------------------------------
(* Scheduled runs from an empty memory, each started after the cycle of the *)
(* one before has returned: no kill, and no run after one that ended in an  *)
(* exception.                                                               *)

InitEmpty ==
    /\ file = NoFile
    /\ memory = DefaultMemory
    /\ pc = "start"
    /\ Locals

\* main() is started first, or after run_cycle returned in the last run
ConstructAfterReturn ==
    /\ pc \in {"start", "done"}
    /\ Construct

NextScheduled ==
    \/ ConstructAfterReturn
    \/ BeginCycle
    \/ Analyze
    \/ LogDecision
    \/ SaveOpen
    \/ SaveWrite
    \/ Gate
    \/ Create
    \/ CheckContent
    \/ Render
    \/ LogProduct
    \/ Summary

SpecScheduled == InitEmpty /\ [][NextScheduled]_vars

-----------------------------------------------------------------------------
(* The two parsers alone, on every reply up to a length: the reply is drawn *)
(* at the start, and either method's handling of it is applied.             *)

\* a second object, told from Good in every field
Other == Payload(Str("skip"), Num(10), Str("weak"), Str("$1.00"), Str("Other"))

ReplyParts == {Open, Close, Obj(Good), Obj(Other)}

AllReplies ==
    {TransportError}
    \cup {[ok |-> TRUE, segs |-> q] :
             q \in UNION {[1..n -> ReplyParts] : n \in 0..MaxReplyLen}}

InitExtract ==
    /\ file = NoFile
    /\ memory = DefaultMemory
    /\ pc = "reply"
    /\ idx = 1
    /\ analysis = NoAnalysis
    /\ toCreate = <<>>
    /\ content = NoContent
    /\ wpos = 0
    /\ ret = ""
    /\ \E reply \in AllReplies : io = [kind |-> "none", reply |-> reply, calls |-> 0]
    /\ genCalls = <<>>
    /\ base = [dec |-> 0, prod |-> 0]
    /\ summary = NoSummary

\* lines 150-168 on the reply, for a keyword in neither list
EvaluateReply ==
    /\ pc = "reply"
    /\ analysis' = ai_analyze_opportunity(memory, TopTrends[idx], io.reply).result
    /\ io' = [io EXCEPT !.kind = "eval", !.calls = 1]
    /\ pc' = "evaluated"
    /\ UNCHANGED <<file, memory, idx, toCreate, content, wpos, ret, genCalls, base,
                   summary>>

\* lines 215-229 on the reply
GenerateFromReply ==
    /\ pc = "reply"
    /\ content' = ai_create_product_content(io.reply)
    /\ io' = [io EXCEPT !.kind = "gen", !.calls = 1]
    /\ pc' = "generated"
    /\ UNCHANGED <<file, memory, idx, analysis, toCreate, wpos, ret, genCalls, base,
                   summary>>

NextExtract ==
    \/ EvaluateReply
    \/ GenerateFromReply

SpecExtract == InitExtract /\ [][NextExtract]_vars


-----------------------------------------------------------------------------
(* What the claims speak of *)

\* run_cycle has passed line 357 in this process
InCycle ==
    pc \in {"analyze", "log_decision", "save_open", "save_write", "gate", "create",
            "created", "render", "log_product", "done", "raised", "render_failed"}

\* the records appended since run_cycle began
CycleDecisions == SubSeq(memory.decisions, base.dec + 1, Len(memory.decisions))

CycleProducts ==
    SubSeq(memory.products_created, base.prod + 1, Len(memory.products_created))

AtOrAboveGate(rec) ==
    /\ rec.decision = Str("create")
    /\ rec.confidence.t = "num"
    /\ rec.confidence.n >= ConfidenceGate

\* C1: Gate enforcement: ai_create_product_content is called only with a
\* decision that is create with confidence at or above 0.75, and a candidate
\* whose DecisionRecord of this cycle is below the gate, or is not create, is
\* never passed to it and gets no ProductRecord.
C1_GateEnforcement ==
    InCycle =>
        /\ \A i \in 1..Len(genCalls) : AtOrAboveGate(genCalls[i].d)
        /\ \A i \in 1..Len(CycleDecisions) :
             ~AtOrAboveGate(CycleDecisions[i]) =>
                /\ \A j \in 1..Len(genCalls) :
                      genCalls[j].d.trend # CycleDecisions[i].trend
                /\ \A j \in 1..Len(CycleProducts) :
                      CycleProducts[j].trend # CycleDecisions[i].trend

\* a finished cycle that gated one candidate and held back a create just
\* below the gate
C1_Witness ==
    /\ pc = "done"
    /\ Len(genCalls) = 1
    /\ Len(CycleProducts) = 1
    /\ \E i \in 1..Len(CycleDecisions) :
         /\ CycleDecisions[i].decision = Str("create")
         /\ CycleDecisions[i].confidence = Num(ConfidenceGate - 1)


\* how many records of the cycle carry the keyword
CycleRecordsOf(kw) ==
    Cardinality({i \in 1..Len(CycleDecisions) : CycleDecisions[i].trend = Str(kw)})

\* C2: Known-failure short-circuit: for a candidate whose keyword is in
\* failed_niches, whatever else the memory holds, ai_analyze_opportunity
\* returns skip with confidence 0 and sends no oracle request; the cycle
\* records exactly one DecisionRecord {skip, 0} for it, never calls the
\* generator for it and writes no ProductRecord for it.
C2_KnownFailure ==
    /\ (pc = "log_decision" /\ InList(TopTrends[idx], memory.failed_niches)) =>
          /\ analysis.decision = Str("skip")
          /\ analysis.confidence = Num(0)
          /\ analysis.trend = Str(TopTrends[idx])
          /\ io.calls = 0
    /\ InCycle =>
          \A i \in 1..Len(TopTrends) :
             InList(TopTrends[i], memory.failed_niches) =>
                /\ CycleRecordsOf(TopTrends[i]) =
                      (IF i <= Len(CycleDecisions) THEN 1 ELSE 0)
                /\ i <= Len(CycleDecisions) =>
                      /\ CycleDecisions[i].trend = Str(TopTrends[i])
                      /\ CycleDecisions[i].decision = Str("skip")
                      /\ CycleDecisions[i].confidence = Num(0)
                /\ \A j \in 1..Len(genCalls) : genCalls[j].d.trend # Str(TopTrends[i])
                /\ \A j \in 1..Len(CycleProducts) :
                      CycleProducts[j].trend # Str(TopTrends[i])

\* a finished cycle whose first candidate is labelled failed and successful
\* at once, and whose second candidate became a product
C2_Witness ==
    /\ pc = "done"
    /\ InList(K1, memory.failed_niches)
    /\ InList(K1, memory.successful_niches)
    /\ Len(CycleDecisions) = 2
    /\ CycleDecisions[1].decision = Str("skip")
    /\ Len(CycleProducts) = 1

\* C3: Known-success short-circuit, as claimed: for a candidate whose keyword
\* is in successful_niches, whatever else the memory holds,
\* ai_analyze_opportunity returns create with confidence 0.95 and sends no
\* oracle request.
C3_KnownSuccess ==
    (pc = "log_decision" /\ InList(TopTrends[idx], memory.successful_niches)) =>
        /\ analysis.decision = Str("create")
        /\ analysis.confidence = Num(95)
        /\ io.calls = 0


\* the Judgment {decision: monitor, confidence: 0.5}
IsFallback(a) == a.decision = Str("monitor") /\ a.confidence = Num(50)

\* no well-formed object of the reply carries both decision and confidence
NoJudgmentIn(reply) ==
    \/ ~reply.ok
    \/ \A i \in 1..Len(reply.segs) :
          reply.segs[i].t = "obj" =>
             \/ reply.segs[i].p.decision.t = "absent"
             \/ reply.segs[i].p.confidence.t = "absent"

\* C4: Evaluation fallback: for a candidate in neither list, when the
\* transport fails or the reply holds no payload with decision and
\* confidence, ai_analyze_opportunity returns {monitor, 0.5} (no exception
\* escapes: the run goes on to log_decision); the DecisionRecord written is
\* that Judgment, the gate neither raises on it nor passes it, so the loop
\* goes on, and no generator call and no ProductRecord is made for the
\* candidate in this cycle.
C4_EvaluationFallback ==
    /\ (pc = "log_decision" /\ io.calls = 1 /\ NoJudgmentIn(io.reply)) =>
          /\ IsFallback(analysis)
          /\ analysis.trend = Str(TopTrends[idx])
          /\ ~InList(TopTrends[idx], memory.failed_niches)
          /\ ~InList(TopTrends[idx], memory.successful_niches)
    /\ (pc \in {"save_open", "save_write", "gate"} /\ ret \in {"gate", ""}
          /\ analysis # NoAnalysis) =>
          /\ decision_record(analysis) = memory.decisions[Len(memory.decisions)]
          /\ IsFallback(analysis) => ~GateRaises(analysis) /\ ~PassesGate(analysis)
    /\ InCycle =>
          \A i \in 1..Len(CycleDecisions) :
             IsFallback(CycleDecisions[i]) =>
                /\ \A j \in 1..Len(genCalls) :
                      genCalls[j].d.trend # CycleDecisions[i].trend
                /\ \A j \in 1..Len(CycleProducts) :
                      CycleProducts[j].trend # CycleDecisions[i].trend

\* the first candidate fell back on a transport failure, the cycle went on,
\* and the reply for the second has a brace-delimited region that is no JSON
\* value
C4_Witness ==
    /\ pc = "log_decision"
    /\ idx = 2
    /\ Len(CycleDecisions) = 1
    /\ IsFallback(CycleDecisions[1])
    /\ io.calls = 1
    /\ io.reply.ok
    /\ io.reply.segs = <<Open, Close>>
    /\ IsFallback(analysis)

\* the calls of the generator that returned content
OkCalls == SelectSeq(genCalls, LAMBDA g : g.ok)

\* no well-formed object of the reply carries a title
NoDraftIn(reply) ==
    \/ ~reply.ok
    \/ \A i \in 1..Len(reply.segs) :
          reply.segs[i].t = "obj" => reply.segs[i].p.title.t = "absent"

\* C5: Per-item creation failure is non-fatal: on a transport failure or a
\* reply with no parsable draft ai_create_product_content returns None (the
\* run goes on at line 376), the ProductRecords of the cycle are those of
\* the calls that returned content, in order, and every gated Judgment is
\* passed to the generator in turn whatever the earlier ones returned.
C5_CreationFailureNonFatal ==
    /\ (pc = "created" /\ NoDraftIn(io.reply)) =>
          /\ ~content.ok
          /\ ~genCalls[Len(genCalls)].ok
    /\ InCycle =>
          /\ Len(CycleProducts) <= Len(OkCalls)
          /\ \A j \in 1..Len(CycleProducts) :
                CycleProducts[j].trend = OkCalls[j].d.trend
          /\ Len(genCalls) <= Len(toCreate) \/ pc \in {"raised", "render_failed"}
          /\ \A i \in 1..Len(genCalls) :
                pc \notin {"raised", "render_failed"} => genCalls[i].d = toCreate[i]
    /\ pc = "create" => Len(genCalls) = idx - 1
    /\ pc \in {"created", "render", "log_product"} => Len(genCalls) = idx
    /\ pc = "done" =>
          /\ Len(genCalls) = Len(toCreate)
          /\ Len(CycleProducts) = Len(OkCalls)

\* a finished cycle with two gated Judgments: the generator returned None for
\* the first and content for the second, which alone became a product
C5_Witness ==
    /\ pc = "done"
    /\ Len(genCalls) = 2
    /\ ~genCalls[1].ok
    /\ genCalls[2].ok
    /\ Len(CycleProducts) = 1
    /\ CycleProducts[1].trend = genCalls[2].d.trend

\* C6: Every outcome is recorded: at every point of a cycle the
\* DecisionRecords appended in it are one per candidate evaluated so far,
\* each with its candidate's keyword, in the order of search_trends, whether
\* the Judgment came from a memory check, the oracle or the fallback.
C6_EveryOutcomeRecorded ==
    InCycle =>
        /\ Len(CycleDecisions) <= Len(TopTrends)
        /\ \A i \in 1..Len(CycleDecisions) :
              CycleDecisions[i].trend = Str(TopTrends[i])
        /\ pc \in {"analyze", "log_decision"} => Len(CycleDecisions) = idx - 1
        /\ (pc = "gate" \/ (pc \in {"save_open", "save_write"} /\ ret = "gate")) =>
              Len(CycleDecisions) = idx
        /\ (pc \in {"create", "created", "render", "log_product", "done"}
              \/ (pc \in {"save_open", "save_write"} /\ ret = "create")) =>
              Len(CycleDecisions) = Len(TopTrends)

\* a finished cycle: the first candidate was a known failure, the second
\* fell back in the except branch, and both are on record
C6_Witness ==
    /\ pc = "done"
    /\ InList(K1, memory.failed_niches)
    /\ Len(CycleDecisions) = 2
    /\ CycleDecisions[1] = decision_record(KnownFailure(K1))
    /\ CycleDecisions[2] = decision_record(EvalFallback(K2))


IsPrefix(s, t) == Len(s) <= Len(t) /\ SubSeq(t, 1, Len(s)) = s

\* C7: Per-mutation durability, as claimed: at every point of a cycle the
\* file loads to a record that is a prefix of self.memory (same labels and
\* revenue, decisions and products prefixes) lagging by at most one appended
\* record, so that a crash there loses at most the step in flight.
C7_PerMutationDurability ==
    InCycle =>
        LET durable == load_memory(file)
        IN /\ durable.ok
           /\ IsPrefix(durable.mem.decisions, memory.decisions)
           /\ IsPrefix(durable.mem.products_created, memory.products_created)
           /\ durable.mem.successful_niches = memory.successful_niches
           /\ durable.mem.failed_niches = memory.failed_niches
           /\ durable.mem.total_revenue = memory.total_revenue
           /\ (Len(memory.decisions) - Len(durable.mem.decisions))
                + (Len(memory.products_created) - Len(durable.mem.products_created))
                <= 1

\* C8: save never leaves a half-written file, as claimed: whenever the
\* process has crashed, the file on disk (if any) is a complete record.
C8_SaveNeverHalfWritten ==
    pc = "crashed" => (~file.exists \/ Parses(file))

\* C9: load fails soft, as claimed: construction never ends in load_memory's
\* exception, and a run that starts without a file or with a file that does
\* not parse goes on with the empty default record.
C9_LoadFailsSoft ==
    /\ pc # "load_failed"
    /\ (pc = "ready" /\ ~(file.exists /\ Parses(file))) => memory = DefaultMemory

C11_SchemaTolerance ==
    /\ pc = "ready" => memory.keys = Range(MemKeys)
    /\ pc = "analyze" =>
          \A reply \in Replies :
             ~ai_analyze_opportunity(memory, TopTrends[idx], reply).raised
    /\ pc = "log_decision" => "decisions" \in memory.keys
    /\ pc = "log_product" => "products_created" \in memory.keys

\* C12: Renderer failure is a hard error: when create_pdf_product raises for
\* a gated create Judgment, run_cycle ends in the exception; the item whose
\* content was last returned has no ProductRecord (the ProductRecords of the
\* cycle are those of the calls that returned content before it, in order),
\* and the file holds every record made before the failure: it loads to
\* self.memory as it was then.  At every point of a cycle a ProductRecord
\* stands only for a call whose rendering is behind it.
C12_RendererFailureHard ==
    /\ pc = "render_failed" =>
          /\ Len(OkCalls) >= 1
          /\ Len(CycleProducts) = Len(OkCalls) - 1
          /\ \A j \in 1..Len(CycleProducts) :
                CycleProducts[j].trend = OkCalls[j].d.trend
          /\ Len(CycleDecisions) = Len(TopTrends)
          /\ load_memory(file) = [ok |-> TRUE, mem |-> memory]
    /\ pc \in {"created", "render"} =>
          Len(CycleProducts) = Len(SelectSeq(SubSeq(genCalls, 1, Len(genCalls) - 1),
                                            LAMBDA g : g.ok))

\* the renderer failed on the second gated item, after the first had become
\* a product: that product and both decisions are in the file
C12_Witness ==
    /\ pc = "render_failed"
    /\ Len(genCalls) = 2
    /\ genCalls[1].ok /\ genCalls[2].ok
    /\ Len(CycleProducts) = 1
    /\ CycleProducts[1].trend = Str(K1)
    /\ Len(load_memory(file).mem.products_created) = base.prod + 1
    /\ Len(load_memory(file).mem.decisions) = base.dec + 2

\* the decision loop of run_cycle is over
DecisionPhaseDone ==
    \/ pc \in {"create", "created", "render", "log_product", "done", "render_failed"}
    \/ pc \in {"save_open", "save_write"} /\ ret = "create"

\* C13: Fan-out cap: with N candidates from search_trends and the cap K = 2,
\* every call of ai_analyze_opportunity in a cycle is for one of the first
\* min(N, K) candidates, taken in source order, and a cycle whose decision
\* loop is over has evaluated exactly these: one record each, in that order,
\* and nothing for a candidate beyond them.
C13_FanOutCap ==
    LET n == Min(Len(search_trends), FanOutCap)
    IN /\ pc \in {"analyze", "log_decision", "gate"} => idx <= n
       /\ pc = "log_decision" => analysis.trend = Str(search_trends[idx])
       /\ (InCycle /\ DecisionPhaseDone) =>
             /\ Len(CycleDecisions) = n
             /\ \A i \in 1..n : CycleDecisions[i].trend = Str(search_trends[i])
       /\ InCycle =>
             \A i \in 1..Len(CycleDecisions) :
                \A j \in (n + 1)..Len(search_trends) :
                   CycleDecisions[i].trend # Str(search_trends[j])

\* the decision loop is over with five candidates on offer: the first two
\* were evaluated, by the oracle
C13_Witness ==
    /\ pc = "create"
    /\ idx = 1
    /\ Len(search_trends) = 5
    /\ Len(CycleDecisions) = 2
    /\ CycleDecisions[1].trend = Str(K1)
    /\ CycleDecisions[2].trend = Str(K2)
    /\ CycleDecisions[2].reasoning = Str("strategic")

\* the fields no cycle is to write
Labels(m) ==
    [successful_niches |-> m.successful_niches,
     failed_niches |-> m.failed_niches,
     total_revenue |-> m.total_revenue]

\* C14: Label frame: a run takes successful_niches, failed_niches and
\* total_revenue from the file as they are stored; no step of the cycle
\* (ai_analyze_opportunity, log_decision, ai_create_product_content,
\* create_pdf_product, log_product_creation, the summary) changes them in
\* self.memory; every save_memory that completes leaves a file that holds
\* them unchanged.  So after any sequence of cycles they are as at the first
\* load, and the memory checks of a cycle see the labels from before it.
C14_LabelFrame ==
    [][ /\ (pc' = "ready") => Labels(memory') = Labels(load_memory(file).mem)
        /\ (pc \notin {"start"} \cup Exited /\ pc' # "crashed") =>
              Labels(memory') = Labels(memory)
        /\ (Parses(file') /\ file' # file) =>
              /\ pc = "save_write"
              /\ Labels(load_memory(file').mem) = Labels(memory)
      ]_vars

\* a run on a record with labels and revenue has finished a cycle that made
\* two products, on top of a product of an earlier run
C14_Witness ==
    /\ pc = "done"
    /\ memory.total_revenue = 27
    /\ memory.successful_niches = <<K1, K2>>
    /\ Len(CycleProducts) = 2
    /\ base.prod = 1
    /\ Labels(load_memory(file).mem) = Labels(EarningRecord)

\* C15: Label disjointness, as claimed: in every state, the one right after
\* load_memory of any stored file included, no keyword is in both
\* successful_niches and failed_niches of self.memory.
C15_LabelDisjointness ==
    \A i \in 1..Len(memory.successful_niches) :
       ~InList(memory.successful_niches[i], memory.failed_niches)

\* C16: DecisionRecord well-formedness, as claimed: whatever the oracle
\* replies, every record of self.memory["decisions"] has a decision among
\* create, monitor, skip and a confidence that is a number in [0, 1].
C16_DecisionRecordWellFormed ==
    \A i \in 1..Len(memory.decisions) :
       /\ memory.decisions[i].decision \in {Str("create"), Str("monitor"), Str("skip")}
       /\ memory.decisions[i].confidence.t = "num"
       /\ memory.decisions[i].confidence.n \in 0..100

\* C17: Creation order: in a cycle, every DecisionRecord of the cycle is
\* appended before the first call of ai_create_product_content; the
\* ProductRecords of the cycle stand in the relative order of the
\* DecisionRecords of their candidates, whatever the confidences; and each
\* of them has the trend of a DecisionRecord of the cycle that is create with
\* confidence at or above the gate.
C17_CreationOrder ==
    InCycle =>
        /\ (Len(genCalls) >= 1 \/ Len(CycleProducts) >= 1) =>
              Len(CycleDecisions) = Len(TopTrends)
        /\ \E f \in [1..Len(CycleProducts) -> 1..Len(CycleDecisions)] :
              /\ \A j, k \in 1..Len(CycleProducts) : j < k => f[j] < f[k]
              /\ \A j \in 1..Len(CycleProducts) :
                    /\ CycleProducts[j].trend = CycleDecisions[f[j]].trend
                    /\ AtOrAboveGate(CycleDecisions[f[j]])
        /\ \A j, k \in 1..Len(genCalls) :
              j < k =>
                 \E a, b \in 1..Len(CycleDecisions) :
                    /\ a < b
                    /\ CycleDecisions[a].trend = genCalls[j].d.trend
                    /\ CycleDecisions[b].trend = genCalls[k].d.trend

\* a finished cycle that made two products: the first from an oracle
\* Judgment at 0.75, the second from a known success at 0.95, the lower
\* confidence first
C17_Witness ==
    /\ pc = "done"
    /\ Len(CycleProducts) = 2
    /\ CycleProducts[1].trend = Str(K1)
    /\ CycleProducts[2].trend = Str(K2)
    /\ CycleDecisions[1].confidence = Num(ConfidenceGate)
    /\ CycleDecisions[2].confidence = Num(95)

\* the reply's first "{" opens a well-formed object: that object is then the
\* first balanced brace-delimited region of the reply
FirstBraceOpensObject(segs) ==
    \E i \in 1..Len(segs) :
       /\ segs[i].t = "obj"
       /\ \A j \in 1..(i - 1) : ~HasOpen(segs[j])

FirstObject(segs) ==
    segs[CHOOSE i \in 1..Len(segs) :
            /\ segs[i].t = "obj"
            /\ \A j \in 1..(i - 1) : ~HasOpen(segs[j])]

\* C18: Payload extraction, as claimed: for every reply whose first balanced
\* brace-delimited region is a well-formed object, ai_analyze_opportunity and
\* ai_create_product_content return what they return for that object alone,
\* whatever braces follow it in the reply; the fallback (monitor at 0.5, or
\* None) is not applied to such a reply.
C18_PayloadExtraction ==
    (io.reply.ok /\ FirstBraceOpensObject(io.reply.segs)) =>
        LET alone == [ok |-> TRUE, segs |-> <<FirstObject(io.reply.segs)>>]
        IN /\ pc = "evaluated" =>
                 /\ analysis = OracleAnalysis(TopTrends[idx], alone)
                 /\ ~IsFallback(analysis)
           /\ pc = "generated" =>
                 /\ content = ai_create_product_content(alone)
                 /\ content.ok

\* C19: Cycle summary accuracy, as claimed: when run_cycle has returned, the
\* number printed as "Products created this cycle" is the number of
\* ProductRecords appended in the cycle, and the number printed as "Total
\* products in catalog" is the length of products_created.
C19_SummaryAccuracy ==
    pc = "done" =>
        /\ summary.created = Len(CycleProducts)
        /\ summary.catalog = Len(memory.products_created)

\* C20: No duplicate products across cycles, as claimed: starting from empty
\* memory, when a cycle has returned after any number of cycles that
\* returned before it, products_created holds at most one record per trend
\* keyword, and no two of its records share a file path.
C20_NoDuplicateProducts ==
    pc = "done" =>
        \A i, j \in 1..Len(memory.products_created) :
           i < j =>
              /\ memory.products_created[i].trend # memory.products_created[j].trend
              /\ memory.products_created[i].filepath
                    # memory.products_created[j].filepath


====
